---- MODULE Spec2Model ----
(***************************************************************************)
(* Model of packages/dev-server/src/MetroDevServer.ts: the bundling        *)
(* orchestrator bundleAsync, the dev-server bootstrap                      *)
(* runMetroDevServerAsync, and their external collaborators (Metro, the    *)
(* Hermes bundler, the reporter) seen as nondeterministic environments.    *)
(* Every await of the source is a point where other tasks may interleave;  *)
(* the code between two awaits is one atomic action.                       *)
(***************************************************************************)
EXTENDS Integers, Sequences, FiniteSets, TLC

\* ------------------------------------------------------------------ bounds
MaxInvocations == 2   \* bundleAsync invocations of one process (Spec runs the first)
MaxBundles == 2       \* bundle requests of one invocation
MaxProgress == 1      \* onProgress callbacks the bundler makes in one invocation
MaxHookCalls == 2     \* calls of the enhanceMiddleware hook by the dev server
MaxReports == 2       \* events reported through the dev server's reporter
MaxIosRuns == 2       \* runs of the ios command action

Invocations == 1 .. MaxInvocations

\* -------------------------------------------------------------- data model
Platforms == {"android", "ios", "web"}

\* An optional value: <<>> is undefined, <<v>> is the value v.
Undefined == <<>>
Some(v) == <<v>>
OptBool == {Undefined, Some(TRUE), Some(FALSE)}

\* a ?? b
Coalesce(a, b) == IF a = Undefined THEN b ELSE a[1]

\* !a  (undefined is falsy)
Not(a) == IF a = Undefined THEN TRUE ELSE ~a[1]

\* The platforms an app configuration can set to run on Hermes.
NativePlatforms == {"android", "ios"}

\* BundleOptions: the requests the single-invocation specification draws.
BundleRequests ==
  [entryPoint : {"index.js"}, platform : NativePlatforms,
   dev : {Undefined}, minify : {Undefined}, sourceMapUrl : {Undefined}]

\* Every combination of set and unset dev and minify flags.
FlaggedBundleRequests ==
  [entryPoint : {"index.js"}, platform : Platforms,
   dev : OptBool, minify : OptBool, sourceMapUrl : {Undefined}]

RECURSIVE SeqsUpTo(_, _)
SeqsUpTo(S, n) ==
  IF n = 0 THEN {<<>>}
  ELSE LET shorter == SeqsUpTo(S, n - 1)
       IN  shorter \cup {Append(s, x) : s \in {t \in shorter : Len(t) = n - 1}, x \in S}

\* What getConfigFilePaths finds in the project: each path present or not.
ConfigFilePathsFound ==
  [dynamicConfigPath : {Undefined, Some("app.config.js")},
   staticConfigPath : {Undefined, Some("app.config.json")}]

\* Variant: the static path preferred over the dynamic one.
ConfigFilePathStaticFirst(paths) ==
  Coalesce(paths.staticConfigPath, Coalesce(paths.dynamicConfigPath, "app.json"))

\* paths.dynamicConfigPath ?? paths.staticConfigPath ?? 'app.json'
ConfigFilePath(paths) ==
  Coalesce(paths.dynamicConfigPath, Coalesce(paths.staticConfigPath, "app.json"))

\* The app configuration, reduced to what this code asks of it: the set of
\* platforms it configures to run on Hermes.
ExpoConfigs == SUBSET NativePlatforms

isEnableHermesManaged(expoConfig, platform) == platform \in expoConfig

\* `bundle_${n}`
BuildIDOf(n) == <<"bundle_", n>>

NoError == <<"none", 0>>
NoOutput == [code |-> Undefined, map |-> Undefined, assets |-> Undefined,
             hermesBytecodeBundle |-> Undefined, hermesSourcemap |-> Undefined]

\* ------------------------------------------------------------------- state
VARIABLES
  nextBuildID,          \* the module-level counter
  pc,                   \* pc[k]: where invocation k of bundleAsync is suspended
  bundles,              \* bundles[k]: the request list of invocation k
  quiet,                \* quiet[k]: options.quiet
  expoConfig,           \* expoConfig[k]
  buildID,              \* buildID[k]
  metroStarted,         \* metroStarted[k]: metro.runMetro has resolved
  endCalls,             \* endCalls[k]: calls of metroServer.end()
  targets,              \* targets[k][i]: the buildAsync call of request i
  allRejection,         \* allRejection[k]: first rejection Promise.all saw
  intermediateOutputs,  \* intermediateOutputs[k]
  hermes,               \* hermes[k][i]: the maybeAddHermesBundleAsync call of i
  engineChecks,         \* engineChecks[k]: calls of the engine check, in order
  configPaths,          \* configPaths[k]: what getConfigFilePaths finds
  hermesCalls,          \* hermesCalls[k]: calls of the bytecode compiler
  bundleOutputs,        \* bundleOutputs[k]
  result,               \* result[k]: how the promise of invocation k settled
  devServer,            \* the one call of runMetroDevServerAsync
  ios                   \* the runs of the ios command action

bundleVars ==
  <<nextBuildID, pc, bundles, quiet, expoConfig, buildID, metroStarted,
    endCalls, targets, allRejection, intermediateOutputs, hermes,
    engineChecks, configPaths, hermesCalls, bundleOutputs, result>>

serverVars == <<devServer>>

iosVars == <<ios>>

vars == <<bundleVars, serverVars, iosVars>>

\* What a step of bundleAsync, of the dev server and of the ios command
\* leaves alone.
nonBundleVars == <<serverVars, iosVars>>
nonServerVars == <<bundleVars, iosVars>>
nonIosVars == <<bundleVars, serverVars>>

\* The values of metroConfig.server.port the loaded configuration may have.
ServerPorts == {8081, 19000}

\* A middleware: the bundler's native middleware of the j-th hook call, and
\* the wrappers applied to it, innermost first.
NativeMiddleware(j) == [native |-> j, wrappers |-> <<>>]

\* new LogReporter(options.logger): where its own reportEvent sends events.
LogReporterSink == "logger"

DevServerInit ==
  [pc |-> "idle",
   customEnhanceMiddleware |-> FALSE, \* metroConfig.server.enhanceMiddleware is set
   middlewarePort |-> 0,              \* the port createDevServerMiddleware was given
   hookCalls |-> 0,                   \* calls of the installed enhanceMiddleware
   calls |-> <<>>,                    \* calls made by the hook, in order
   listening |-> FALSE,               \* the HTTP server is bound
   attached |-> FALSE,                \* attachToServer has returned
   optionsReporter |-> FALSE,         \* options.reporter is given
   reportEvent |-> LogReporterSink,   \* where the LogReporter's reportEvent sends
   reported |-> <<>>,                 \* each reported event: where it was sent,
                                      \* and whether the function had returned
   steps |-> <<>>,                    \* the calls and assignments made, in order
   inspectorProxy |-> {},             \* the binding methods the proxy exposes
   inspectorCalls |-> <<>>,           \* calls made by attachInspectorProxy
   inspectorResult |-> "none",        \* what attachInspectorProxy returned
   status |-> "pending",
   error |-> NoError]

\* The ios command: runs are the calls of action, opened the calls of
\* Simulator.openProjectAsync, both in order.
IosInit == [runs |-> <<>>, opened |-> <<>>]

Pending == [status |-> "pending", outputs |-> <<>>, error |-> NoError]

Init ==
  /\ nextBuildID = 0
  /\ pc = [k \in Invocations |-> "idle"]
  /\ bundles = [k \in Invocations |-> <<>>]
  /\ quiet = [k \in Invocations |-> FALSE]
  /\ expoConfig = [k \in Invocations |-> {}]
  /\ buildID = [k \in Invocations |-> Undefined]
  /\ metroStarted = [k \in Invocations |-> FALSE]
  /\ endCalls = [k \in Invocations |-> 0]
  /\ targets = [k \in Invocations |-> <<>>]
  /\ allRejection = [k \in Invocations |-> NoError]
  /\ intermediateOutputs = [k \in Invocations |-> <<>>]
  /\ hermes = [k \in Invocations |-> <<>>]
  /\ engineChecks = [k \in Invocations |-> <<>>]
  /\ configPaths = [k \in Invocations |-> Undefined]
  /\ hermesCalls = [k \in Invocations |-> <<>>]
  /\ bundleOutputs = [k \in Invocations |-> <<>>]
  /\ result = [k \in Invocations |-> Pending]
  /\ devServer = DevServerInit
  /\ ios = IosInit

\* ------------------------------------------------------------- bundleAsync
\* The caller invokes bundleAsync: the code up to the await of loadAsync.
Call(k, requests, maxBundles) ==
  /\ pc[k] = "idle"
  /\ \E bs \in SeqsUpTo(requests, maxBundles), q \in BOOLEAN, cfg \in ExpoConfigs :
       /\ bundles' = [bundles EXCEPT ![k] = bs]
       /\ quiet' = [quiet EXCEPT ![k] = q]
       /\ expoConfig' = [expoConfig EXCEPT ![k] = cfg]
  /\ pc' = [pc EXCEPT ![k] = "loadConfig"]
  /\ UNCHANGED <<nextBuildID, buildID, metroStarted, endCalls, targets,
                 allRejection, intermediateOutputs, hermes, engineChecks, configPaths,
                 hermesCalls, bundleOutputs, result,
                 nonBundleVars>>

\* ExpoMetroConfig.loadAsync rejects: bundleAsync rejects before the try block.
LoadConfigReject(k) ==
  /\ pc[k] = "loadConfig"
  /\ pc' = [pc EXCEPT ![k] = "rejected"]
  /\ result' = [result EXCEPT ![k] =
                  [status |-> "rejected", outputs |-> <<>>, error |-> <<"config", 0>>]]
  /\ UNCHANGED <<nextBuildID, bundles, quiet, expoConfig, buildID, metroStarted,
                 endCalls, targets, allRejection, intermediateOutputs,
                 hermes, engineChecks, configPaths, hermesCalls, bundleOutputs,
                 nonBundleVars>>

\* Variant: the counter is read but not incremented.
PostIncrementDropped(n) == n

\* nextBuildID++ : the value the counter holds after the expression.
PostIncrement(n) == n + 1

\* loadAsync resolves: the build identifier is taken and metro.runMetro called.
LoadConfigResolve(k) ==
  /\ pc[k] = "loadConfig"
  /\ buildID' = [buildID EXCEPT ![k] = BuildIDOf(nextBuildID)]
  /\ nextBuildID' = PostIncrement(nextBuildID)
  /\ pc' = [pc EXCEPT ![k] = "runMetro"]
  /\ UNCHANGED <<bundles, quiet, expoConfig, metroStarted, endCalls, targets, allRejection, intermediateOutputs, hermes,
                 engineChecks, configPaths, hermesCalls, bundleOutputs, result,
                 nonBundleVars>>

\* metro.runMetro rejects: still before the try block, no server to end.
RunMetroReject(k) ==
  /\ pc[k] = "runMetro"
  /\ pc' = [pc EXCEPT ![k] = "rejected"]
  /\ result' = [result EXCEPT ![k] =
                  [status |-> "rejected", outputs |-> <<>>, error |-> <<"runMetro", 0>>]]
  /\ UNCHANGED <<nextBuildID, bundles, quiet, expoConfig, buildID, metroStarted,
                 endCalls, targets, allRejection, intermediateOutputs,
                 hermes, engineChecks, configPaths, hermesCalls, bundleOutputs,
                 nonBundleVars>>

\* ---------------------------------------------------------------- buildAsync
\* The Metro.BundleOptions of a request.
BundleOptionsOf(bundle) ==
  [bundleType |-> "bundle",
   platform |-> bundle.platform,
   entryFile |-> bundle.entryPoint,
   dev |-> Coalesce(bundle.dev, FALSE),
   minify |-> Coalesce(bundle.minify, Not(bundle.dev)),
   inlineSourceMap |-> FALSE,
   sourceMapUrl |-> bundle.sourceMapUrl]

\* The events reporter.update receives.
StartedEvent(id, bundle) ==
  [type |-> "bundle_build_started", buildID |-> id,
   bundleDetails |->
     [bundleType |-> BundleOptionsOf(bundle).bundleType,
      platform |-> bundle.platform,
      entryFile |-> bundle.entryPoint,
      dev |-> Coalesce(bundle.dev, FALSE),
      minify |-> Coalesce(bundle.minify, FALSE)]]

ProgressEvent(id, transformedFileCount, totalFileCount) ==
  [type |-> "bundle_transform_progressed", buildID |-> id,
   transformedFileCount |-> transformedFileCount,
   totalFileCount |-> totalFileCount]

DoneEvent(id) == [type |-> "bundle_build_done", buildID |-> id]

\* Variant: the quiet test inverted.
OnProgressWhenQuiet(evs, q, id, transformedFileCount, totalFileCount) ==
  IF q
  THEN Append(evs, ProgressEvent(id, transformedFileCount, totalFileCount))
  ELSE evs

\* onProgress, called by the bundler: the updates of the closure after it.
OnProgress(evs, q, id, transformedFileCount, totalFileCount) ==
  IF ~q
  THEN Append(evs, ProgressEvent(id, transformedFileCount, totalFileCount))
  ELSE evs

\* Variant: metroServer.build called before the started event is reported.
BuildAsyncStartBuildFirst(id, bundle) ==
  [state |-> "building",
   buildOptions |-> BundleOptionsOf(bundle),
   events |-> <<StartedEvent(id, bundle)>>,
   invokedAt |-> 0,
   completedAt |-> 0,
   progress |-> <<>>,
   error |-> NoError,
   output |-> NoOutput]

\* buildAsync(bundle) up to its first await: the started event, then the call
\* of metroServer.build.  events are the updates this closure made to the
\* reporter, in order; invokedAt is their number when build was called and
\* completedAt their number when build resolved; progress are the arguments
\* of the onProgress calls the bundler made.
BuildAsyncStart(id, bundle) ==
  LET reported == <<StartedEvent(id, bundle)>>
  IN  [state |-> "building",
       buildOptions |-> BundleOptionsOf(bundle),
       events |-> reported,
       invokedAt |-> Len(reported),
       completedAt |-> 0,
       progress |-> <<>>,
       error |-> NoError,
       output |-> NoOutput]

\* bundles.map(bundle => buildAsync(bundle)): every build is started before
\* any of them can resume.
MapBuildAsync(id, bs) == [i \in 1 .. Len(bs) |-> BuildAsyncStart(id, bs[i])]

\* metro.runMetro resolves: the try block is entered and the builds started.
RunMetroResolve(k) ==
  /\ pc[k] = "runMetro"
  /\ targets' = [targets EXCEPT ![k] = MapBuildAsync(buildID[k], bundles[k])]
  /\ metroStarted' = [metroStarted EXCEPT ![k] = TRUE]
  /\ pc' = [pc EXCEPT ![k] = "building"]
  /\ UNCHANGED <<nextBuildID, bundles, quiet, expoConfig, buildID, endCalls,
                 allRejection, intermediateOutputs, hermes, engineChecks,
                 configPaths, hermesCalls, bundleOutputs, result,
                 nonBundleVars>>

\* The <<transformedFileCount, totalFileCount>> the bundler may report.
ProgressArgs == {<<1, 2>>, <<2, 2>>}

\* The onProgress calls the bundler has made for the builds ts.
RECURSIVE ProgressCalls(_)
ProgressCalls(ts) ==
  IF ts = <<>> THEN 0 ELSE Len(Head(ts).progress) + ProgressCalls(Tail(ts))

\* The bundler calls the onProgress of request i's bundleOptions, which both
\* metroServer.build and metroServer.getAssets are given, while either call
\* is pending.
BuildProgress(k, i) ==
  /\ i \in DOMAIN targets[k]
  /\ targets[k][i].state \in {"building", "assets"}
  /\ ProgressCalls(targets[k]) < MaxProgress
  /\ \E a \in ProgressArgs :
       targets' = [targets EXCEPT
                     ![k][i].progress = Append(@, a),
                     ![k][i].events = OnProgress(@, quiet[k], buildID[k], a[1], a[2])]
  /\ UNCHANGED <<nextBuildID, pc, bundles, quiet, expoConfig, buildID,
                 metroStarted, endCalls, allRejection, intermediateOutputs,
                 hermes, engineChecks, configPaths, hermesCalls, bundleOutputs, result,
                 nonBundleVars>>

\* What metroServer.build and metroServer.getAssets return for the build
\* call of request i.
BuiltCode(i) == <<"code", i>>
BuiltMap(i) == <<"map", i>>
BuiltAssets(i) == <<"assets", i>>

\* A rejection reaches Promise.all, which keeps the first one only.
FirstRejection(current, error) == IF current = NoError THEN error ELSE current

\* metroServer.build of request i resolves; getAssets is called.
BuildResolve(k, i) ==
  /\ i \in DOMAIN targets[k]
  /\ targets[k][i].state = "building"
  /\ targets' = [targets EXCEPT
                   ![k][i].state = "assets",
                   ![k][i].completedAt = Len(targets[k][i].events),
                   ![k][i].output.code = BuiltCode(i),
                   ![k][i].output.map = BuiltMap(i)]
  /\ UNCHANGED <<nextBuildID, pc, bundles, quiet, expoConfig, buildID,
                 metroStarted, endCalls, allRejection,
                 intermediateOutputs, hermes, engineChecks, configPaths, hermesCalls,
                 bundleOutputs, result,
                 nonBundleVars>>

\* metroServer.build of request i rejects: buildAsync(i) rejects.
BuildReject(k, i) ==
  /\ i \in DOMAIN targets[k]
  /\ targets[k][i].state = "building"
  /\ targets' = [targets EXCEPT ![k][i].state = "failed",
                                ![k][i].error = <<"build", i>>]
  /\ allRejection' = [allRejection EXCEPT ![k] = FirstRejection(@, <<"build", i>>)]
  /\ UNCHANGED <<nextBuildID, pc, bundles, quiet, expoConfig, buildID,
                 metroStarted, endCalls, intermediateOutputs, hermes,
                 engineChecks, configPaths, hermesCalls, bundleOutputs, result,
                 nonBundleVars>>

\* Variant: the done event reported once for the build and once for the assets.
ReportDonePerStep(evs, id) == evs \o <<DoneEvent(id), DoneEvent(id)>>

\* reporter.update({ buildID, type: 'bundle_build_done' }) after getAssets.
ReportDone(evs, id) == Append(evs, DoneEvent(id))

\* metroServer.getAssets of request i resolves: the done event, then
\* buildAsync(i) resolves with { code, map, assets }.
AssetsResolve(k, i) ==
  /\ i \in DOMAIN targets[k]
  /\ targets[k][i].state = "assets"
  /\ targets' = [targets EXCEPT
                   ![k][i].events = ReportDone(@, buildID[k]),
                   ![k][i].state = "done",
                   ![k][i].output.assets = BuiltAssets(i)]
  /\ UNCHANGED <<nextBuildID, pc, bundles, quiet, expoConfig, buildID,
                 metroStarted, endCalls, allRejection, intermediateOutputs,
                 hermes, engineChecks, configPaths, hermesCalls, bundleOutputs, result,
                 nonBundleVars>>

\* metroServer.getAssets of request i rejects: buildAsync(i) rejects.
AssetsReject(k, i) ==
  /\ i \in DOMAIN targets[k]
  /\ targets[k][i].state = "assets"
  /\ targets' = [targets EXCEPT ![k][i].state = "failed",
                                ![k][i].error = <<"assets", i>>]
  /\ allRejection' = [allRejection EXCEPT ![k] = FirstRejection(@, <<"assets", i>>)]
  /\ UNCHANGED <<nextBuildID, pc, bundles, quiet, expoConfig, buildID,
                 metroStarted, endCalls, intermediateOutputs, hermes,
                 engineChecks, configPaths, hermesCalls, bundleOutputs, result,
                 nonBundleVars>>

\* ------------------------------------------------- try / finally, settling
\* Variant: end() after the loop instead of in a finally block.
EndCallsWithoutFinally(n, status) == IF status = "resolved" THEN n + 1 ELSE n

\* finally { metroServer.end() }: the calls of end() after the block is left,
\* whichever way it is left.
EndCallsAfterFinally(n, status) == n + 1

\* Variant: a rejection that still hands over the outputs collected so far.
OutcomePartial(status, outs, err) ==
  [status |-> status, outputs |-> outs,
   error |-> IF status = "rejected" THEN err ELSE NoError]

\* What the caller of bundleAsync gets: the returned array, or the error.
Outcome(status, outs, err) ==
  [status |-> status,
   outputs |-> IF status = "resolved" THEN outs ELSE <<>>,
   error |-> IF status = "rejected" THEN err ELSE NoError]

\* The try block is left by return or by throw: end() runs, then the
\* promise of bundleAsync settles.
Finally(k, status, outs, err) ==
  /\ endCalls' = [endCalls EXCEPT ![k] = EndCallsAfterFinally(@, status)]
  /\ result' = [result EXCEPT ![k] = Outcome(status, outs, err)]
  /\ pc' = [pc EXCEPT ![k] = status]

\* Variant: the values in reverse order of the requests.
IntermediateOutputsReversed(ts) ==
  [i \in 1 .. Len(ts) |-> ts[Len(ts) + 1 - i].output]

\* The array Promise.all resolves with: the value of buildAsync(bundles[i])
\* at index i.
IntermediateOutputsOf(ts) == [i \in 1 .. Len(ts) |-> ts[i].output]

\* ------------------------------------------- maybeAddHermesBundleAsync loop
\* Variant: every remaining request at once, as Promise.all over the list.
LoopTargetsAllAtOnce(i, n) == i .. n

\* The requests whose maybeAddHermesBundleAsync is called when the for loop
\* reaches index i of n: one at a time.
LoopTargets(i, n) == IF i <= n THEN {i} ELSE {}

\* Variant: the check is called as if only Hermes-managed requests reached it.
EngineCheckCallManagedOnly(cfg, bundle, i, paths) ==
  [target |-> i,
   configFilePath |-> ConfigFilePath(paths),
   platform |-> bundle.platform,
   isHermesManaged |-> TRUE]

\* maybeAddHermesBundleAsync(bundle, bundleOutput) up to its first await:
\* the call of maybeThrowFromInconsistentEngineAsync.  paths is what
\* getConfigFilePaths found.
EngineCheckCall(cfg, bundle, i, paths) ==
  [target |-> i,
   configFilePath |-> ConfigFilePath(paths),
   platform |-> bundle.platform,
   isHermesManaged |-> isEnableHermesManaged(cfg, bundle.platform)]

RECURSIVE AppendEngineChecks(_, _, _, _, _)
AppendEngineChecks(log, S, paths, cfg, bs) ==
  IF S = {} THEN log
  ELSE LET i == CHOOSE x \in S : \A y \in S : x <= y
       IN  AppendEngineChecks(Append(log, EngineCheckCall(cfg, bs[i], i, paths)),
                              S \ {i}, paths, cfg, bs)

\* getConfigFilePaths(projectRoot): the project's config files do not change
\* while it is bundled, so every call finds what the first one found.
GetConfigFilePaths(found) ==
  IF found = Undefined THEN ConfigFilePathsFound ELSE {found[1]}

\* The for loop after the outputs outs have been pushed: it returns when
\* every request has its output, and otherwise calls
\* maybeAddHermesBundleAsync for the next request.  inter and hs are the
\* intermediate outputs and the per-request states at that moment.
ContinueLoop(k, outs, inter, hs) ==
  /\ bundleOutputs' = [bundleOutputs EXCEPT ![k] = outs]
  /\ intermediateOutputs' = [intermediateOutputs EXCEPT ![k] = inter]
  /\ LET n == Len(bundles[k])
         S == {i \in LoopTargets(Len(outs) + 1, n) : hs[i] = "waiting"}
     IN  IF Len(outs) >= n
         THEN /\ Finally(k, "resolved", outs, NoError)
              /\ hermes' = [hermes EXCEPT ![k] = hs]
              /\ UNCHANGED <<engineChecks, configPaths>>
         ELSE /\ \E paths \in GetConfigFilePaths(configPaths[k]) :
                   /\ configPaths' = [configPaths EXCEPT ![k] = Some(paths)]
                   /\ engineChecks' = [engineChecks EXCEPT ![k] =
                        AppendEngineChecks(@, S, paths, expoConfig[k], bundles[k])]
              /\ hermes' = [hermes EXCEPT ![k] =
                   [i \in DOMAIN hs |-> IF i \in S THEN "checking" ELSE hs[i]]]
              /\ pc' = [pc EXCEPT ![k] = "hermes"]
              /\ UNCHANGED <<endCalls, result>>

\* Variant: the first build to resolve is enough, as with Promise.race.
AnyBuildResolved(ts) == ts = <<>> \/ \E i \in DOMAIN ts : ts[i].state = "done"

\* Promise.all resolves only when every promise it was given has resolved.
AllBuildsResolved(ts) == \A i \in DOMAIN ts : ts[i].state = "done"

\* Promise.all resolves: every buildAsync has resolved; the loop begins.
PromiseAllResolve(k) ==
  /\ pc[k] = "building"
  /\ AllBuildsResolved(targets[k])
  /\ ContinueLoop(k, <<>>, IntermediateOutputsOf(targets[k]),
                  [i \in DOMAIN targets[k] |-> "waiting"])
  /\ UNCHANGED <<nextBuildID, bundles, quiet, expoConfig, buildID, metroStarted,
                 targets, allRejection, hermesCalls,
                 nonBundleVars>>

\* Promise.all rejects with the first rejection it saw: the await throws.
PromiseAllReject(k) ==
  /\ pc[k] = "building"
  /\ allRejection[k] # NoError
  /\ Finally(k, "rejected", bundleOutputs[k], allRejection[k])
  /\ UNCHANGED <<nextBuildID, bundles, quiet, expoConfig, buildID, metroStarted,
                 targets, allRejection, intermediateOutputs, hermes,
                 engineChecks, configPaths, hermesCalls, bundleOutputs,
                 nonBundleVars>>

\* The call of buildHermesBundleAsync for request i.
HermesCall(bundle, bundleOutput, i) ==
  [target |-> i, code |-> bundleOutput.code, map |-> bundleOutput.map,
   minify |-> bundle.minify]

\* What buildHermesBundleAsync returns for the given code and map.
HermesBundleOutput(code, map) ==
  [hbc |-> <<"hbc", code[2]>>, sourcemap |-> <<"hbcmap", map[2]>>]

\* Variant: only the bytecode is attached.
AttachHermesBytecodeOnly(bundleOutput, hermesBundleOutput) ==
  [bundleOutput EXCEPT !.hermesBytecodeBundle = hermesBundleOutput.hbc]

\* bundleOutput.hermesBytecodeBundle = ...hbc; bundleOutput.hermesSourcemap = ...
AttachHermes(bundleOutput, hermesBundleOutput) ==
  [bundleOutput EXCEPT !.hermesBytecodeBundle = hermesBundleOutput.hbc,
                       !.hermesSourcemap = hermesBundleOutput.sourcemap]

\* if (isHermesManaged)
CompilesBytecode(isHermesManaged) == isHermesManaged

\* The engine check of request i resolves: maybeAddHermesBundleAsync calls
\* the compiler, or returns the output as it is.
EngineCheckResolve(k, i) ==
  /\ pc[k] = "hermes"
  /\ i \in DOMAIN hermes[k]
  /\ hermes[k][i] = "checking"
  /\ IF CompilesBytecode(isEnableHermesManaged(expoConfig[k], bundles[k][i].platform))
     THEN /\ hermesCalls' = [hermesCalls EXCEPT ![k] =
                Append(@, HermesCall(bundles[k][i], intermediateOutputs[k][i], i))]
          /\ hermes' = [hermes EXCEPT ![k][i] = "compiling"]
     ELSE /\ hermes' = [hermes EXCEPT ![k][i] = "returned"]
          /\ UNCHANGED hermesCalls
  /\ UNCHANGED <<nextBuildID, pc, bundles, quiet, expoConfig, buildID, metroStarted,
                 endCalls, targets, allRejection, intermediateOutputs,
                 engineChecks, configPaths, bundleOutputs, result,
                 nonBundleVars>>

\* The engine check of request i throws: maybeAddHermesBundleAsync rejects.
EngineCheckReject(k, i) ==
  /\ pc[k] = "hermes"
  /\ i \in DOMAIN hermes[k]
  /\ hermes[k][i] = "checking"
  /\ hermes' = [hermes EXCEPT ![k][i] = "checkFailed"]
  /\ UNCHANGED <<nextBuildID, pc, bundles, quiet, expoConfig, buildID, metroStarted,
                 endCalls, targets, allRejection, intermediateOutputs,
                 engineChecks, configPaths, hermesCalls, bundleOutputs, result,
                 nonBundleVars>>

\* buildHermesBundleAsync of request i resolves: the bytecode is attached to
\* the output object and maybeAddHermesBundleAsync returns it.
HermesResolve(k, i) ==
  /\ pc[k] = "hermes"
  /\ i \in DOMAIN hermes[k]
  /\ hermes[k][i] = "compiling"
  /\ intermediateOutputs' = [intermediateOutputs EXCEPT ![k][i] =
       AttachHermes(@, HermesBundleOutput(@.code, @.map))]
  /\ hermes' = [hermes EXCEPT ![k][i] = "returned"]
  /\ UNCHANGED <<nextBuildID, pc, bundles, quiet, expoConfig, buildID, metroStarted,
                 endCalls, targets, allRejection,
                 engineChecks, configPaths, hermesCalls, bundleOutputs, result,
                 nonBundleVars>>

\* buildHermesBundleAsync of request i rejects: maybeAddHermesBundleAsync
\* rejects.
HermesReject(k, i) ==
  /\ pc[k] = "hermes"
  /\ i \in DOMAIN hermes[k]
  /\ hermes[k][i] = "compiling"
  /\ hermes' = [hermes EXCEPT ![k][i] = "compileFailed"]
  /\ UNCHANGED <<nextBuildID, pc, bundles, quiet, expoConfig, buildID, metroStarted,
                 endCalls, targets, allRejection, intermediateOutputs,
                 engineChecks, configPaths, hermesCalls, bundleOutputs, result,
                 nonBundleVars>>

\* The await of maybeAddHermesBundleAsync(bundles[i], ...) in the loop
\* resumes with the output it returned: the output is pushed and the loop
\* goes on to the next request, or bundleAsync returns.
LoopResume(k, i) ==
  /\ pc[k] = "hermes"
  /\ i \in DOMAIN hermes[k]
  /\ hermes[k][i] = "returned"
  /\ ContinueLoop(k, Append(bundleOutputs[k], intermediateOutputs[k][i]),
                  intermediateOutputs[k],
                  [hermes[k] EXCEPT ![i] = "done"])
  /\ UNCHANGED <<nextBuildID, bundles, quiet, expoConfig, buildID, metroStarted,
                 targets, allRejection, hermesCalls,
                 nonBundleVars>>

\* The error maybeAddHermesBundleAsync of request i rejected with.
LoopError(state, i) ==
  IF state = "checkFailed" THEN <<"engine", i>> ELSE <<"hermes", i>>

\* The await of maybeAddHermesBundleAsync(bundles[i], ...) in the loop
\* resumes with its rejection: the loop is left by the throw.
LoopThrow(k, i) ==
  /\ pc[k] = "hermes"
  /\ i \in DOMAIN hermes[k]
  /\ hermes[k][i] \in {"checkFailed", "compileFailed"}
  /\ Finally(k, "rejected", bundleOutputs[k], LoopError(hermes[k][i], i))
  /\ UNCHANGED <<nextBuildID, bundles, quiet, expoConfig, buildID, metroStarted,
                 targets, allRejection, intermediateOutputs, hermes,
                 engineChecks, configPaths, hermesCalls, bundleOutputs,
                 nonBundleVars>>

\* -------------------------------------------------- runMetroDevServerAsync
\* customEnhanceMiddleware(metroMiddleware, server): the project's enhancer
\* wraps what it is given.
CustomEnhance(m) == [m EXCEPT !.wrappers = Append(@, "customEnhanceMiddleware")]

\* Variant: the base stack takes the native middleware and the custom
\* enhancer is applied to what the base stack returned.
EnhanceMiddlewareBaseFirst(calls, custom, hook, metroMiddleware) ==
  IF custom
  THEN calls \o <<[fn |-> "middleware.use", hook |-> hook,
                   arg |-> metroMiddleware],
                  [fn |-> "customEnhanceMiddleware", hook |-> hook,
                   arg |-> [metroMiddleware EXCEPT
                              !.wrappers = Append(@, "middleware")]]>>
  ELSE Append(calls, [fn |-> "middleware.use", hook |-> hook,
                      arg |-> metroMiddleware])

\* The enhanceMiddleware hook installed on the configuration, called with
\* metroMiddleware: the calls it makes, appended to calls.
EnhanceMiddleware(calls, custom, hook, metroMiddleware) ==
  IF custom
  THEN calls \o <<[fn |-> "customEnhanceMiddleware", hook |-> hook,
                   arg |-> metroMiddleware],
                  [fn |-> "middleware.use", hook |-> hook,
                   arg |-> CustomEnhance(metroMiddleware)]>>
  ELSE Append(calls, [fn |-> "middleware.use", hook |-> hook,
                      arg |-> metroMiddleware])

\* runMetroDevServerAsync is called, with or without a reporter among its
\* options: the code up to the await of loadAsync.
DevCall ==
  /\ devServer.pc = "idle"
  /\ \E given \in BOOLEAN :
       devServer' = [devServer EXCEPT !.pc = "loadConfig",
                                      !.optionsReporter = given,
                                      !.steps = Append(@, "loadAsync")]
  /\ UNCHANGED nonServerVars

DevSettle(ds, status, err) ==
  [ds EXCEPT !.pc = status, !.status = status, !.error = err]

\* ExpoMetroConfig.loadAsync rejects.
DevLoadConfigReject ==
  /\ devServer.pc = "loadConfig"
  /\ devServer' = DevSettle(devServer, "rejected", <<"config", 0>>)
  /\ UNCHANGED nonServerVars

\* loadAsync resolves and createDevServerMiddleware throws.
DevCreateMiddlewareThrow ==
  /\ devServer.pc = "loadConfig"
  /\ devServer' = DevSettle([devServer EXCEPT
                                !.steps = Append(@, "createDevServerMiddleware")],
                            "rejected", <<"middleware", 0>>)
  /\ UNCHANGED nonServerVars

\* loadAsync resolves: the middleware is created, the hook installed over
\* the configured enhancer (if any), and createDevServerAsync called.
DevLoadConfigResolve ==
  /\ devServer.pc = "loadConfig"
  /\ \E custom \in BOOLEAN, port \in ServerPorts :
       devServer' = [devServer EXCEPT !.pc = "createServer",
                                      !.customEnhanceMiddleware = custom,
                                      !.middlewarePort = port,
                                      !.steps = @ \o <<"createDevServerMiddleware",
                                                       "enhanceMiddleware =",
                                                       "createDevServerAsync">>]
  /\ UNCHANGED nonServerVars

\* The bundler calls config.server.enhanceMiddleware while it creates the
\* server.
DevHookCall ==
  /\ devServer.pc = "createServer"
  /\ devServer.hookCalls < MaxHookCalls
  /\ devServer' = [devServer EXCEPT
       !.hookCalls = @ + 1,
       !.calls = EnhanceMiddleware(@, devServer.customEnhanceMiddleware,
                                   devServer.hookCalls + 1,
                                   NativeMiddleware(devServer.hookCalls + 1))]
  /\ UNCHANGED nonServerVars

\* An event is reported through the LogReporter created at line 56.  The
\* only reference to it that leaves the function is the reporter property of
\* what loadAsync is given, { reporter, ...options }, and options.reporter,
\* spread last, replaces it there: with a reporter among the options
\* nothing outside the function can report through the LogReporter.
DevReportEvent ==
  /\ devServer.pc \in {"createServer", "resolved", "rejected"}
  /\ devServer.pc = "rejected" => devServer.listening
  /\ ~devServer.optionsReporter
  /\ Len(devServer.reported) < MaxReports
  /\ devServer' = [devServer EXCEPT !.reported =
       Append(@, [reporter |-> "LogReporter",
                  sink |-> devServer.reportEvent,
                  returned |-> devServer.status = "resolved"])]
  /\ UNCHANGED nonServerVars

\* An event is reported through the reporter the caller passed among the
\* options, which is the one loadAsync was given: it stays with that
\* reporter.
DevReportEventOptionsReporter ==
  /\ devServer.pc \in {"createServer", "resolved", "rejected"}
  /\ devServer.pc = "rejected" => devServer.listening
  /\ devServer.optionsReporter
  /\ Len(devServer.reported) < MaxReports
  /\ devServer' = [devServer EXCEPT !.reported =
       Append(@, [reporter |-> "options.reporter",
                  sink |-> "options.reporter",
                  returned |-> devServer.status = "resolved"])]
  /\ UNCHANGED nonServerVars

\* createDevServerAsync rejects, before or while the server binds.
DevCreateServerReject ==
  /\ devServer.pc = "createServer"
  /\ devServer' = DevSettle(devServer, "rejected", <<"createDevServer", 0>>)
  /\ UNCHANGED nonServerVars

\* Variant: the sockets are attached and the reporter keeps logging.
AttachAndKeepLogger(ds) ==
  [ds EXCEPT !.attached = TRUE,
             !.steps = Append(@, "attachToServer")]

\* attachToServer(server) returns the sockets, then
\* reporter.reportEvent = eventsSocket.reportEvent.
AttachAndRedirect(ds) ==
  [ds EXCEPT !.attached = TRUE,
             !.reportEvent = "eventsSocket",
             !.steps = @ \o <<"attachToServer", "reporter.reportEvent =">>]

\* createDevServerAsync resolves with the listening server; attachToServer
\* returns the sockets and the reporter is redirected.
DevCreateServerResolve ==
  /\ devServer.pc = "createServer"
  /\ devServer' = DevSettle(AttachAndRedirect([devServer EXCEPT !.listening = TRUE]),
                            "resolved", NoError)
  /\ UNCHANGED nonServerVars

\* createDevServerAsync resolves with the listening server and attachToServer
\* throws: nothing closes the server.
DevAttachToServerThrow ==
  /\ devServer.pc = "createServer"
  /\ devServer' = DevSettle([devServer EXCEPT !.listening = TRUE,
                                             !.steps = Append(@, "attachToServer")],
                            "rejected", <<"attachToServer", 0>>)
  /\ UNCHANGED nonServerVars

\* ------------------------------------------------------ attachInspectorProxy
\* The binding methods an InspectorProxy of the project's metro may expose.
InspectorProxyMethods == {"addWebSocketListener", "createWebSocketListeners"}

\* The server and the middleware chain runMetroDevServerAsync returned.
ServerOf(ds) == [kind |-> "server", port |-> ds.middlewarePort]
MiddlewareOf(ds) == [kind |-> "middleware", port |-> ds.middlewarePort]

\* Variant: two independent tests instead of if / else if.
BindingCallsBoth(methods, server) ==
  (IF "addWebSocketListener" \in methods
   THEN <<[on |-> "inspectorProxy", fn |-> "addWebSocketListener", arg |-> server]>>
   ELSE <<>>)
  \o (IF "createWebSocketListeners" \in methods
      THEN <<[on |-> "inspectorProxy", fn |-> "createWebSocketListeners", arg |-> server]>>
      ELSE <<>>)

\* if ('addWebSocketListener' in inspectorProxy) ... else if
\* ('createWebSocketListeners' in inspectorProxy) ...: the calls made.
BindingCalls(methods, server) ==
  IF "addWebSocketListener" \in methods
  THEN <<[on |-> "inspectorProxy", fn |-> "addWebSocketListener", arg |-> server]>>
  ELSE IF "createWebSocketListeners" \in methods
       THEN <<[on |-> "inspectorProxy", fn |-> "createWebSocketListeners", arg |-> server]>>
       ELSE <<>>

\* The calls of attachInspectorProxy(projectRoot, { server, middleware }) on
\* a proxy exposing methods, and what it returns.
AttachInspectorProxy(methods, server, middleware) ==
  [calls |-> BindingCalls(methods, server)
             \o <<[on |-> "middleware", fn |-> "use",
                   arg |-> [kind |-> "inspectorProxy.processRequest",
                            port |-> middleware.port]]>>,
   result |-> "inspectorProxy"]

\* The caller attaches the inspector proxy to the server it got.
DevAttachInspectorProxy ==
  /\ devServer.status = "resolved"
  /\ devServer.inspectorResult = "none"
  /\ \E methods \in SUBSET InspectorProxyMethods :
       LET r == AttachInspectorProxy(methods, ServerOf(devServer),
                                     MiddlewareOf(devServer))
       IN  devServer' = [devServer EXCEPT !.inspectorProxy = methods,
                                          !.inspectorCalls = r.calls,
                                          !.inspectorResult = r.result]
  /\ UNCHANGED nonServerVars

NextDevServer ==
  \/ DevAttachInspectorProxy
  \/ DevCall
  \/ DevLoadConfigReject
  \/ DevCreateMiddlewareThrow
  \/ DevLoadConfigResolve
  \/ DevHookCall
  \/ DevReportEvent
  \/ DevReportEventOptionsReporter
  \/ DevCreateServerReject
  \/ DevCreateServerResolve
  \/ DevAttachToServerThrow

SpecDevServer == Init /\ [][NextDevServer]_vars

\* ---------------------------------------------------------- ios command
\* The project directories and the options the command wrapper may pass.
ProjectDirs == {".", "/projects/app"}
IosOptions == [nonInteractive : BOOLEAN]

\* What Simulator.openProjectAsync may reject with.
SimulatorErrors == {<<"simulator", 1>>, <<"simulator", 2>>}

\* Variant: the current directory is opened whatever directory was given.
OpenProjectArgsCwd(projectDir, options) == "."

\* Simulator.openProjectAsync(projectDir): the argument of the call.
OpenProjectArgs(projectDir, options) == projectDir

\* await Simulator.openProjectAsync(...): how action settles when the call
\* has settled with the given state and error.
IosActionOutcome(callState, callError) ==
  [status |-> callState, error |-> callError]

\* action(projectDir, options) is called: up to the await.  A run starts only
\* when the run before it has settled.
IosAction ==
  /\ Len(ios.runs) < MaxIosRuns
  /\ \A r \in DOMAIN ios.runs : ios.runs[r].status # "pending"
  /\ \E dir \in ProjectDirs, options \in IosOptions :
       ios' = [runs |-> Append(ios.runs,
                               [projectDir |-> dir, options |-> options,
                                call |-> Len(ios.opened) + 1,
                                status |-> "pending", error |-> NoError]),
               opened |-> Append(ios.opened,
                                 [projectDir |-> OpenProjectArgs(dir, options),
                                  state |-> "pending", error |-> NoError])]
  /\ UNCHANGED nonIosVars

\* The call of openProjectAsync awaited by run r settles as given, and the
\* run with it.
IosSettle(r, callState, callError) ==
  LET c == ios.runs[r].call
      outcome == IosActionOutcome(callState, callError)
  IN  ios' = [runs |-> [ios.runs EXCEPT ![r].status = outcome.status,
                                         ![r].error = outcome.error],
              opened |-> [ios.opened EXCEPT ![c].state = callState,
                                            ![c].error = callError]]

\* Simulator.openProjectAsync resolves.
IosOpenResolve ==
  /\ \E r \in DOMAIN ios.runs :
       /\ ios.runs[r].status = "pending"
       /\ IosSettle(r, "resolved", NoError)
  /\ UNCHANGED nonIosVars

\* Simulator.openProjectAsync rejects.
IosOpenReject ==
  /\ \E r \in DOMAIN ios.runs, e \in SimulatorErrors :
       /\ ios.runs[r].status = "pending"
       /\ IosSettle(r, "rejected", e)
  /\ UNCHANGED nonIosVars

NextIos ==
  \/ IosAction
  \/ IosOpenResolve
  \/ IosOpenReject

SpecIos == Init /\ [][NextIos]_vars

\* --------------------------------------------------------- specification
\* The indices a request of an invocation can have.
Targets == 1 .. MaxBundles

Next ==
  \/ Call(1, BundleRequests, MaxBundles)
  \/ LoadConfigReject(1)
  \/ LoadConfigResolve(1)
  \/ RunMetroReject(1)
  \/ RunMetroResolve(1)
  \/ \E i \in Targets : BuildProgress(1, i)
  \/ \E i \in Targets : BuildResolve(1, i)
  \/ \E i \in Targets : BuildReject(1, i)
  \/ \E i \in Targets : AssetsResolve(1, i)
  \/ \E i \in Targets : AssetsReject(1, i)
  \/ PromiseAllResolve(1)
  \/ PromiseAllReject(1)
  \/ \E i \in Targets : EngineCheckResolve(1, i)
  \/ \E i \in Targets : EngineCheckReject(1, i)
  \/ \E i \in Targets : HermesResolve(1, i)
  \/ \E i \in Targets : HermesReject(1, i)
  \/ \E i \in Targets : LoopResume(1, i)
  \/ \E i \in Targets : LoopThrow(1, i)

Spec == Init /\ [][Next]_vars

\* One invocation with at most one request, drawn with every combination of
\* set and unset dev and minify flags and on every platform.
NextFlagged ==
  \/ Call(1, FlaggedBundleRequests, 1)
  \/ LoadConfigReject(1)
  \/ LoadConfigResolve(1)
  \/ RunMetroReject(1)
  \/ RunMetroResolve(1)
  \/ \E i \in Targets : BuildProgress(1, i)
  \/ \E i \in Targets : BuildResolve(1, i)
  \/ \E i \in Targets : BuildReject(1, i)
  \/ \E i \in Targets : AssetsResolve(1, i)
  \/ \E i \in Targets : AssetsReject(1, i)
  \/ PromiseAllResolve(1)
  \/ PromiseAllReject(1)
  \/ \E i \in Targets : EngineCheckResolve(1, i)
  \/ \E i \in Targets : EngineCheckReject(1, i)
  \/ \E i \in Targets : HermesResolve(1, i)
  \/ \E i \in Targets : HermesReject(1, i)
  \/ \E i \in Targets : LoopResume(1, i)
  \/ \E i \in Targets : LoopThrow(1, i)

SpecFlagged == Init /\ [][NextFlagged]_vars

\* What every overlapping invocation is asked to bundle.
OverlapBundles ==
  <<[entryPoint |-> "index.js", platform |-> "android",
     dev |-> Undefined, minify |-> Undefined, sourceMapUrl |-> Undefined]>>

\* bundleAsync is invoked while other invocations may be under way: the
\* callers all bundle the same Hermes-managed project, not quietly.
CallOverlapping(k) ==
  /\ pc[k] = "idle"
  /\ bundles' = [bundles EXCEPT ![k] = OverlapBundles]
  /\ quiet' = [quiet EXCEPT ![k] = FALSE]
  /\ expoConfig' = [expoConfig EXCEPT ![k] = {"android"}]
  /\ pc' = [pc EXCEPT ![k] = "loadConfig"]
  /\ UNCHANGED <<nextBuildID, buildID, metroStarted, endCalls, targets,
                 allRejection, intermediateOutputs, hermes, engineChecks, configPaths,
                 hermesCalls, bundleOutputs, result,
                 nonBundleVars>>

\* The two invocations whose executions overlap.
Overlapping == {1, 2}

\* Two invocations of the process run, each step of one interleaved with the
\* steps of the other at their awaits.
NextOverlap ==
  \E k \in Overlapping :
    \/ CallOverlapping(k)
    \/ LoadConfigReject(k)
    \/ LoadConfigResolve(k)
    \/ RunMetroReject(k)
    \/ RunMetroResolve(k)
    \/ \E i \in Targets : BuildProgress(k, i)
    \/ \E i \in Targets : BuildResolve(k, i)
    \/ \E i \in Targets : BuildReject(k, i)
    \/ \E i \in Targets : AssetsResolve(k, i)
    \/ \E i \in Targets : AssetsReject(k, i)
    \/ PromiseAllResolve(k)
    \/ PromiseAllReject(k)
    \/ \E i \in Targets : EngineCheckResolve(k, i)
    \/ \E i \in Targets : EngineCheckReject(k, i)
    \/ \E i \in Targets : HermesResolve(k, i)
    \/ \E i \in Targets : HermesReject(k, i)
    \/ \E i \in Targets : LoopResume(k, i)
    \/ \E i \in Targets : LoopThrow(k, i)

SpecOverlap == Init /\ [][NextOverlap]_vars

\* ================================================================ properties
Settled(k) == result[k].status # "pending"
RequestsOf(k) == 1 .. Len(bundles[k])

\* C1: a successful bundleAsync returns exactly one output per request, and
\* output i holds the code, map and assets that the build of request i
\* produced, whatever the order in which the builds completed.
C1_OutputsInRequestOrder ==
  \A k \in Invocations :
    result[k].status = "resolved" =>
      /\ Len(result[k].outputs) = Len(bundles[k])
      /\ \A i \in RequestsOf(k) :
           /\ result[k].outputs[i].code = targets[k][i].output.code
           /\ result[k].outputs[i].map = targets[k][i].output.map
           /\ result[k].outputs[i].assets = targets[k][i].output.assets
           /\ result[k].outputs[i].code = BuiltCode(i)
           /\ result[k].outputs[i].map = BuiltMap(i)
           /\ result[k].outputs[i].assets = BuiltAssets(i)

C1_Witness ==
  /\ result[1].status = "resolved"
  /\ Len(bundles[1]) = MaxBundles
  /\ Len(result[1].outputs) = MaxBundles
  /\ result[1].outputs[MaxBundles].code = BuiltCode(MaxBundles)

\* C2: once the bundler server of an invocation was started, end() is called
\* at most once, and it has been called exactly once by the time bundleAsync
\* has returned or rethrown, on every path out of the try block.
C2_ServerEndedExactlyOnce ==
  \A k \in Invocations :
    /\ endCalls[k] <= 1
    /\ (metroStarted[k] /\ Settled(k)) => endCalls[k] = 1
    /\ endCalls[k] = 1 => (metroStarted[k] /\ Settled(k))

C2_Witness ==
  /\ metroStarted[1]
  /\ result[1].status = "rejected"
  /\ result[1].error[1] = "hermes"
  /\ endCalls[1] = 1

\* C3: in the outputs of a successful bundleAsync the bytecode and the
\* bytecode source map are both present when the platform of the request is
\* configured for Hermes and both absent when it is not.
C3_BytecodeIffHermesManaged ==
  \A k \in Invocations :
    result[k].status = "resolved" =>
      \A i \in RequestsOf(k) :
        LET out == result[k].outputs[i]
            managed == isEnableHermesManaged(expoConfig[k], bundles[k][i].platform)
        IN  /\ managed => /\ out.hermesBytecodeBundle # Undefined
                          /\ out.hermesSourcemap # Undefined
            /\ ~managed => /\ out.hermesBytecodeBundle = Undefined
                           /\ out.hermesSourcemap = Undefined

C3_Witness ==
  /\ result[1].status = "resolved"
  /\ \E i, j \in RequestsOf(1) :
       /\ isEnableHermesManaged(expoConfig[1], bundles[1][i].platform)
       /\ result[1].outputs[i].hermesSourcemap # Undefined
       /\ ~isEnableHermesManaged(expoConfig[1], bundles[1][j].platform)
       /\ result[1].outputs[j].hermesBytecodeBundle = Undefined

\* The steps of invocation k that have failed, by their errors.
FailedSteps(k) ==
  {targets[k][i].error : i \in {j \in DOMAIN targets[k] : targets[k][j].state = "failed"}}
  \cup {<<"engine", i>> : i \in {j \in DOMAIN hermes[k] : hermes[k][j] = "checkFailed"}}
  \cup {<<"hermes", i>> : i \in {j \in DOMAIN hermes[k] : hermes[k][j] = "compileFailed"}}
  \cup (IF buildID[k] = Undefined THEN {<<"config", 0>>} ELSE {})
  \cup (IF buildID[k] # Undefined /\ ~metroStarted[k] THEN {<<"runMetro", 0>>} ELSE {})

\* C4: when a step fails, bundleAsync rejects with the error of a step that
\* failed, hands over no outputs (also when some were already collected), and
\* has called no step twice; and an invocation with a failed build or compile
\* never resolves.
C4_FailureAbortsBatch ==
  \A k \in Invocations :
    /\ result[k].status = "rejected" =>
         /\ result[k].error \in FailedSteps(k)
         /\ result[k].outputs = <<>>
    /\ result[k].status = "resolved" =>
         /\ \A i \in DOMAIN targets[k] : targets[k][i].state = "done"
         /\ \A i \in DOMAIN hermes[k] : hermes[k][i] = "done"
    /\ \A a, b \in DOMAIN engineChecks[k] :
         engineChecks[k][a].target = engineChecks[k][b].target => a = b
    /\ \A a, b \in DOMAIN hermesCalls[k] :
         hermesCalls[k][a].target = hermesCalls[k][b].target => a = b

C4_Witness ==
  /\ result[1].status = "rejected"
  /\ result[1].error = <<"hermes", 2>>
  /\ Len(bundleOutputs[1]) = 1
  /\ result[1].outputs = <<>>

\* C5: every engine check is given the active config file path (the dynamic
\* path if present, else the static path, else 'app.json'), and a request
\* whose engine check failed has had no bytecode compilation started: the
\* compiler is only ever called for a request whose check has passed.
C5_EngineCheckBeforeCompile ==
  \A k \in Invocations :
    /\ \A c \in DOMAIN engineChecks[k] :
         LET paths == configPaths[k][1]
         IN  engineChecks[k][c].configFilePath =
               IF paths.dynamicConfigPath # Undefined THEN paths.dynamicConfigPath[1]
               ELSE IF paths.staticConfigPath # Undefined THEN paths.staticConfigPath[1]
               ELSE "app.json"
    /\ \A i \in DOMAIN hermes[k] :
         hermes[k][i] \in {"waiting", "checking", "checkFailed"} =>
           \A c \in DOMAIN hermesCalls[k] : hermesCalls[k][c].target # i
    /\ \A i \in RequestsOf(k) :
         result[k].error = <<"engine", i>> =>
           /\ result[k].status = "rejected"
           /\ \A c \in DOMAIN hermesCalls[k] : hermesCalls[k][c].target < i

C5_Witness ==
  /\ result[1].status = "rejected"
  /\ result[1].error = <<"engine", 1>>
  /\ isEnableHermesManaged(expoConfig[1], bundles[1][1].platform)
  /\ hermesCalls[1] = <<>>
  /\ configPaths[1][1].dynamicConfigPath # Undefined
  /\ configPaths[1][1].staticConfigPath # Undefined
  /\ engineChecks[1][1].configFilePath = "app.config.js"

\* C6: at most one bytecode compilation is in flight at any time, and the
\* compilation of a request has not begun while an earlier request is still
\* being checked or compiled.
C6_SequentialCompilation ==
  \A k \in Invocations :
    /\ Cardinality({i \in DOMAIN hermes[k] : hermes[k][i] = "compiling"}) <= 1
    /\ \A i, j \in DOMAIN hermes[k] :
         (i < j /\ hermes[k][j] # "waiting") => hermes[k][i] = "done"

C6_Witness ==
  /\ Len(hermes[1]) >= 2
  /\ hermes[1][1] = "done"
  /\ hermes[1][2] = "compiling"
  /\ Len(hermesCalls[1]) = 2

\* The positions of the events of the given type among the updates evs.
EventsOfType(evs, type) == {e \in DOMAIN evs : evs[e].type = type}

\* C7: for every request, the started event is reported before the build is
\* invoked and the done event after the build has completed (and only then),
\* both with the build identifier of the invocation; a request that was built
\* successfully has exactly one of each.
C7_StartedBeforeDoneAfter ==
  \A k \in Invocations : \A i \in DOMAIN targets[k] :
    LET t == targets[k][i]
        started == EventsOfType(t.events, "bundle_build_started")
        done == EventsOfType(t.events, "bundle_build_done")
    IN  /\ buildID[k] # Undefined
        /\ started = {1}
        /\ \A e \in started : e <= t.invokedAt /\ t.events[e].buildID = buildID[k]
        /\ \A e \in done : /\ t.state = "done"
                           /\ e > t.completedAt
                           /\ t.completedAt >= t.invokedAt
                           /\ t.events[e].buildID = buildID[k]
        /\ t.state = "done" => Cardinality(done) = 1
        /\ result[k].status = "resolved" => Cardinality(done) = 1

C7_Witness ==
  /\ result[1].status = "resolved"
  /\ Len(bundles[1]) = 1
  /\ Len(targets[1][1].events) = 3
  /\ targets[1][1].events[1].type = "bundle_build_started"
  /\ targets[1][1].events[3].type = "bundle_build_done"
  /\ targets[1][1].events[1].buildID = targets[1][1].events[3].buildID

\* The updates evs without the progress events.
RECURSIVE WithoutProgress(_)
WithoutProgress(evs) ==
  IF evs = <<>> THEN <<>>
  ELSE IF Head(evs).type = "bundle_transform_progressed"
       THEN WithoutProgress(Tail(evs))
       ELSE <<Head(evs)>> \o WithoutProgress(Tail(evs))

\* The progress events among the updates evs, as <<transformed, total>>.
RECURSIVE ProgressReported(_)
ProgressReported(evs) ==
  IF evs = <<>> THEN <<>>
  ELSE IF Head(evs).type = "bundle_transform_progressed"
       THEN <<<<Head(evs).transformedFileCount, Head(evs).totalFileCount>>>>
              \o ProgressReported(Tail(evs))
       ELSE ProgressReported(Tail(evs))

\* C8: with the quiet flag no progress event is reported; without it the
\* progress events of a request are exactly its progress callbacks, in order,
\* with their counts and the build identifier of the invocation; the started
\* and done events are the same in both modes.
C8_QuietSuppressesProgressOnly ==
  \A k \in Invocations : \A i \in DOMAIN targets[k] :
    LET t == targets[k][i]
    IN  /\ quiet[k] => ProgressReported(t.events) = <<>>
        /\ ~quiet[k] => ProgressReported(t.events) = t.progress
        /\ \A e \in EventsOfType(t.events, "bundle_transform_progressed") :
             t.events[e].buildID = buildID[k]
        /\ WithoutProgress(t.events) =
             IF t.state = "done"
             THEN <<StartedEvent(buildID[k], bundles[k][i]), DoneEvent(buildID[k])>>
             ELSE <<StartedEvent(buildID[k], bundles[k][i])>>

C8_Witness ==
  /\ quiet[1]
  /\ result[1].status = "resolved"
  /\ Len(bundles[1]) >= 1
  /\ Len(targets[1][1].progress) = MaxProgress
  /\ Len(targets[1][1].events) = 2

\* C9: every call of the installed enhanceMiddleware hook applies the custom
\* enhancer, when there is one, exactly once and to the native middleware,
\* and then hands the enhancer's result to the base stack; without a custom
\* enhancer the native middleware goes to the base stack as it is.  The
\* enhancer is never called after the base stack took the middleware.
C9_CustomEnhancerFirst ==
  \A h \in 1 .. devServer.hookCalls :
    LET cs == devServer.calls
        custom == {c \in DOMAIN cs : cs[c].hook = h /\ cs[c].fn = "customEnhanceMiddleware"}
        base == {c \in DOMAIN cs : cs[c].hook = h /\ cs[c].fn = "middleware.use"}
    IN  /\ Cardinality(base) = 1
        /\ IF devServer.customEnhanceMiddleware
           THEN /\ Cardinality(custom) = 1
                /\ \A c \in custom : /\ cs[c].arg = NativeMiddleware(h)
                                     /\ \A b \in base : c < b
                /\ \A b \in base :
                     cs[b].arg = [native |-> h,
                                  wrappers |-> <<"customEnhanceMiddleware">>]
           ELSE /\ custom = {}
                /\ \A b \in base : cs[b].arg = NativeMiddleware(h)

C9_Witness ==
  /\ devServer.customEnhanceMiddleware
  /\ devServer.hookCalls = MaxHookCalls
  /\ devServer.status = "resolved"
  /\ Len(devServer.calls) = 2 * MaxHookCalls

\* C10: when runMetroDevServerAsync has failed, no server is left listening.
C10_NoServerLeftListening ==
  devServer.status = "rejected" => ~devServer.listening

\* C11: every run of the ios action calls Simulator.openProjectAsync exactly
\* once, with the project directory it received, is pending exactly as long
\* as that call is, and settles the way the call settled: resolved when it
\* resolved, rejected with the same error when it rejected; no call is made
\* again after a failure.
C11_IosForwardsAndPropagates ==
  /\ Len(ios.opened) = Len(ios.runs)
  /\ \A r \in DOMAIN ios.runs :
       LET run == ios.runs[r]
           call == ios.opened[r]
       IN  /\ run.call = r
           /\ call.projectDir = run.projectDir
           /\ run.status = call.state
           /\ run.error = call.error
           /\ run.status = "rejected" <=> run.error \in SimulatorErrors

C11_Witness ==
  /\ Len(ios.runs) = MaxIosRuns
  /\ ios.runs[1].status = "rejected"
  /\ ios.runs[1].projectDir = "/projects/app"
  /\ ios.opened[1].projectDir = "/projects/app"
  /\ ios.runs[1].error = <<"simulator", 2>>
  /\ Len(ios.opened) = MaxIosRuns

\* The positions in calls of the calls of the methods fns.
CallsOf(calls, fns) == {c \in DOMAIN calls : calls[c].fn \in fns}

\* C12: attachInspectorProxy calls at most one binding method of the proxy:
\* addWebSocketListener when the proxy exposes it, otherwise
\* createWebSocketListeners when it exposes that one, otherwise none; it
\* passes the server it was given, makes no other call than one
\* middleware.use with the proxy's processRequest, and returns the proxy.
C12_OneBindingMethod ==
  devServer.inspectorResult # "none" =>
    LET cs == devServer.inspectorCalls
        methods == devServer.inspectorProxy
        legacy == CallsOf(cs, {"addWebSocketListener"})
        modern == CallsOf(cs, {"createWebSocketListeners"})
        use == CallsOf(cs, {"use"})
    IN  /\ Cardinality(legacy \cup modern) <= 1
        /\ legacy # {} <=> "addWebSocketListener" \in methods
        /\ modern # {} <=> /\ "createWebSocketListeners" \in methods
                           /\ "addWebSocketListener" \notin methods
        /\ \A c \in legacy \cup modern :
             cs[c].on = "inspectorProxy" /\ cs[c].arg = ServerOf(devServer)
        /\ Cardinality(use) = 1
        /\ \A c \in use :
             /\ cs[c].on = "middleware"
             /\ cs[c].arg.kind = "inspectorProxy.processRequest"
             /\ cs[c].arg.port = MiddlewareOf(devServer).port
             /\ \A b \in legacy \cup modern : b < c
        /\ DOMAIN cs = legacy \cup modern \cup use
        /\ devServer.inspectorResult = "inspectorProxy"
        /\ devServer.listening

C12_Witness ==
  /\ devServer.inspectorResult = "inspectorProxy"
  /\ devServer.inspectorProxy = InspectorProxyMethods
  /\ Len(devServer.inspectorCalls) = 2
  /\ devServer.inspectorCalls[1].fn = "addWebSocketListener"

\* The builds of invocation k that are still in flight.
InFlight(k) ==
  {i \in DOMAIN targets[k] : targets[k][i].state \in {"building", "assets"}}

\* C13: once end() has been called for an invocation, none of its target
\* builds is in flight: the server is closed only after all builds,
\* successful or not, have completed.
C13_EndAfterAllBuilds ==
  \A k \in Invocations : endCalls[k] > 0 => InFlight(k) = {}

\* C14: an engine check or a bytecode compilation has started only if every
\* target build with its asset collection has completed successfully; in an
\* invocation with a failed build none has started.
C14_BuildsBeforeHermes ==
  \A k \in Invocations :
    /\ (engineChecks[k] # <<>> \/ hermesCalls[k] # <<>>
        \/ \E i \in DOMAIN hermes[k] : hermes[k][i] # "waiting") =>
         \A i \in DOMAIN targets[k] :
           /\ targets[k][i].state = "done"
           /\ targets[k][i].output.code # Undefined
           /\ targets[k][i].output.assets # Undefined
    /\ (\E i \in DOMAIN targets[k] : targets[k][i].state = "failed") =>
         /\ engineChecks[k] = <<>>
         /\ hermesCalls[k] = <<>>
         /\ hermes[k] = <<>>

C14_Witness ==
  /\ Len(bundles[1]) = MaxBundles
  /\ Len(engineChecks[1]) = 1
  /\ hermes[1][1] = "checking"
  /\ \A i \in DOMAIN targets[1] : targets[1][i].state = "done"

\* C15: the bytecode compiler is called with the minify value the build of
\* the same request used (the request's flag, or 'not dev' when it is unset).
\* An undefined argument is counted as not minifying.
C15_CompilerGetsBuildMinify ==
  \A k \in Invocations : \A c \in DOMAIN hermesCalls[k] :
    LET call == hermesCalls[k][c]
    IN  (~Not(call.minify)) = targets[k][call.target].buildOptions.minify

\* C16, as the specification states it: the engine check is performed only
\* for requests whose platform is configured for Hermes, and no other request
\* makes the invocation fail with an engine error.
C16_CheckOnlyManagedTargets ==
  \A k \in Invocations :
    /\ \A c \in DOMAIN engineChecks[k] :
         isEnableHermesManaged(expoConfig[k],
                               bundles[k][engineChecks[k][c].target].platform)
    /\ \A i \in RequestsOf(k) :
         result[k].error = <<"engine", i>> =>
           isEnableHermesManaged(expoConfig[k], bundles[k][i].platform)

\* C16, amended: the engine check is performed exactly once for every request
\* the loop has reached, whether or not its platform is configured for
\* Hermes, and it is told the request's platform and whether that platform is
\* configured for Hermes; a request the loop has not reached is not checked,
\* and an engine error names a request whose check was called.
C16_CheckEveryLoopTarget ==
  \A k \in Invocations :
    /\ \A i \in DOMAIN hermes[k] :
         LET checks == {c \in DOMAIN engineChecks[k] : engineChecks[k][c].target = i}
         IN  Cardinality(checks) = IF hermes[k][i] = "waiting" THEN 0 ELSE 1
    /\ \A c \in DOMAIN engineChecks[k] :
         LET call == engineChecks[k][c]
         IN  /\ call.target \in RequestsOf(k)
             /\ call.platform = bundles[k][call.target].platform
             /\ call.isHermesManaged =
                  isEnableHermesManaged(expoConfig[k], call.platform)
    /\ \A i \in RequestsOf(k) :
         result[k].error = <<"engine", i>> =>
           \E c \in DOMAIN engineChecks[k] : engineChecks[k][c].target = i

C16_Witness ==
  /\ result[1].status = "rejected"
  /\ result[1].error = <<"engine", 2>>
  /\ ~isEnableHermesManaged(expoConfig[1], bundles[1][2].platform)
  /\ Len(engineChecks[1]) = 2
  /\ engineChecks[1][2].isHermesManaged = FALSE
  /\ engineChecks[1][1].isHermesManaged = TRUE

\* C17: every invocation past its configuration load holds a build
\* identifier taken from the process-wide counter; the counter has been
\* incremented once per identifier handed out, so it is larger than every
\* identifier in use and two invocations, overlapping or not, never hold
\* the same one; every event of every target of an invocation carries that
\* invocation's identifier.
C17_FreshBuildIDPerInvocation ==
  /\ nextBuildID = Cardinality({k \in Invocations : buildID[k] # Undefined})
  /\ \A k \in Invocations :
       /\ (pc[k] \in {"runMetro", "building", "hermes"} \/ targets[k] # <<>>)
            => buildID[k] # Undefined
       /\ pc[k] \in {"idle", "loadConfig"} => buildID[k] = Undefined
       /\ buildID[k] # Undefined =>
            /\ buildID[k][2] \in 0 .. nextBuildID - 1
            /\ \A l \in Invocations \ {k} : buildID[l] # buildID[k]
       /\ \A i \in DOMAIN targets[k] :
            \A e \in DOMAIN targets[k][i].events :
              targets[k][i].events[e].buildID = buildID[k]

C17_Witness ==
  /\ pc[1] = "building"
  /\ pc[2] = "building"
  /\ buildID[2] = BuildIDOf(0)
  /\ buildID[1] = BuildIDOf(1)
  /\ Len(targets[1][1].events) = 2
  /\ Len(targets[2][1].events) = 2
  /\ targets[1][1].events[2].type = "bundle_transform_progressed"
  /\ targets[2][1].events[2].type = "bundle_transform_progressed"

\* The order of the statements of runMetroDevServerAsync.
RunOrder ==
  <<"loadAsync", "createDevServerMiddleware", "enhanceMiddleware =",
    "createDevServerAsync", "attachToServer", "reporter.reportEvent =">>

\* C18: the steps of runMetroDevServerAsync are made in one fixed order:
\* configuration load, then the enhanceMiddleware hook is wrapped, then the
\* server is started, then the sockets are attached, then the event-emission
\* function of the reporter the function created is redirected to the event
\* socket, then the function returns.  The hook is not called and the server
\* does not listen before the hook is wrapped, the sockets are attached only
\* to a listening server, the reporter is redirected only with the sockets
\* attached, and a returned call has made every step: once the function has
\* returned, that reporter's event-emission function is the event socket's,
\* and every event reported through that reporter after the return went to
\* the event socket; no event reached the event socket before the redirect.
C18_FixedOrderThenRedirected ==
  /\ Len(devServer.steps) <= Len(RunOrder)
  /\ devServer.steps = SubSeq(RunOrder, 1, Len(devServer.steps))
  /\ (devServer.hookCalls > 0 \/ devServer.listening) =>
       Len(devServer.steps) >= 4
  /\ devServer.attached => devServer.listening /\ Len(devServer.steps) >= 5
  /\ devServer.reportEvent = "eventsSocket" <=>
       (devServer.attached /\ devServer.steps = RunOrder)
  /\ devServer.status = "resolved" <=>
       (devServer.steps = RunOrder /\ devServer.reportEvent = "eventsSocket")
  /\ \A e \in DOMAIN devServer.reported :
       LET ev == devServer.reported[e]
       IN  /\ (ev.reporter = "LogReporter" /\ ev.returned) =>
                ev.sink = "eventsSocket"
           /\ ev.sink = "eventsSocket" =>
                ev.reporter = "LogReporter" /\ ev.returned

C18_Witness ==
  /\ devServer.status = "resolved"
  /\ devServer.hookCalls > 0
  /\ Len(devServer.reported) = 2
  /\ devServer.reported[1].reporter = "LogReporter"
  /\ ~devServer.reported[1].returned
  /\ devServer.reported[1].sink # "eventsSocket"
  /\ devServer.reported[2] =
       [reporter |-> "LogReporter", sink |-> "eventsSocket", returned |-> TRUE]

\* C19: in every state, each request has at most as many done events as
\* started events (so the invocation has too); a request has a done event
\* only when its build and its asset collection have both succeeded, and a
\* request whose build or asset collection failed has none.
C19_DoneOnlyAfterSuccess ==
  \A k \in Invocations : \A i \in DOMAIN targets[k] :
    LET t == targets[k][i]
        started == EventsOfType(t.events, "bundle_build_started")
        done == EventsOfType(t.events, "bundle_build_done")
    IN  /\ Cardinality(done) <= Cardinality(started)
        /\ done # {} =>
             /\ t.state = "done"
             /\ t.output.code = BuiltCode(i)
             /\ t.output.assets = BuiltAssets(i)
        /\ t.state \in {"building", "assets", "failed"} => done = {}

C19_Witness ==
  /\ Len(targets[1]) = 2
  /\ targets[1][1].state = "done"
  /\ EventsOfType(targets[1][1].events, "bundle_build_done") # {}
  /\ targets[1][2].state = "failed"
  /\ targets[1][2].error = <<"assets", 2>>
  /\ EventsOfType(targets[1][2].events, "bundle_build_started") # {}
  /\ EventsOfType(targets[1][2].events, "bundle_build_done") = {}

\* C20: the bundle details of a request's started event (platform, entry
\* file, dev, minify) equal the options its build was called with, whichever
\* of dev and minify the request sets or leaves unset.
C20_StartedDetailsMatchBuild ==
  \A k \in Invocations : \A i \in DOMAIN targets[k] :
    LET t == targets[k][i]
    IN  \A e \in EventsOfType(t.events, "bundle_build_started") :
          LET details == t.events[e].bundleDetails
          IN  /\ details.platform = t.buildOptions.platform
              /\ details.entryFile = t.buildOptions.entryFile
              /\ details.dev = t.buildOptions.dev
              /\ details.minify = t.buildOptions.minify
====
